---- MODULE Spec2Model ----
(***************************************************************************)
(* Model of the SQL based distributed lease lock of go-dbkit (package      *)
(* distrlock): the lock row, the DBLock handle with its Acquire, Extend    *)
(* and Release statements, and the DoExclusively coordinator with its      *)
(* renewal goroutine.                                                      *)
(*                                                                         *)
(* Time is the database server clock `now`, a natural number.  A statement *)
(* executes atomically at the current value of `now` (the row-level write  *)
(* lock of the database serialises the statements).  The number of rows a  *)
(* statement affects is the number of rows its WHERE clause matches.       *)
(* In the DoExclusively part a ticker that is due is served, and a call     *)
(* whose fn returned runs its defers, before the clock advances.            *)
(***************************************************************************)
EXTENDS Integers, Sequences, FiniteSets, TLC

\* ---------------------------------------------------------------- bounds
MaxTime == 2
MaxTTL == 2
MaxUuid == 2
MaxDoTime == 3
MaxRunTime == 6

\* ------------------------------------------------------------- constants
NULL == -1
NULLTOKEN == "NULL"
ErrLockAlreadyAcquired == "ErrLockAlreadyAcquired"
ErrLockAlreadyReleased == "ErrLockAlreadyReleased"

\* NewLock: len(key) > 40 is rejected
MaxKeyLen == 40
\* the key of the modelled row is MaxKeyLen bytes long; the other lengths
\* are the keys NewLock rejects
KeyLens == {0, MaxKeyLen, MaxKeyLen + 1}

Handles == {"h1", "h2"}
\* the concurrent DoExclusively calls and the lock handle each one creates
Procs == {"p1", "p2"}
StaticTokens == {"s1"}
\* the handles whose caller passes a static token; the others call Acquire
StaticUsers == {"h1"}
TTLs == {1, MaxTTL}

\* uuid.NewString(): the n-th token generated, distinct from every other
Uuid(n) == "u" \o ToString(n)

Executors == {"conn", "tx"}
\* where a call can fail: "execErr" before the statement ran (BeginTx or
\* ExecContext returned an error), "ctxDone" after it ran (the ctx.Err()
\* check, or RowsAffected, returned an error), "commitErr" at Commit
Faults(exec) ==
    IF exec = "tx"
    THEN {"none", "execErr", "ctxDone", "commitErr"}
    ELSE {"none", "execErr", "ctxDone"}

VARIABLES
    now,      \* database server time NOW()
    row,      \* the lock row of the key: exists, token, expire_at
    lock,     \* the DBLock handles: created, token, TTL
    uuids,    \* number of tokens uuid.NewString() has produced
    track,    \* what is run and recorded: "calls", "leases", "do", "run", ...
    lease,    \* per handle: the lease its caller was told it holds
    last,     \* the last call: operation, handle, executor, fault, result
    co,       \* the DoExclusively calls: goroutine positions, options, contexts
    mg        \* the migrations: list, tracking table, schema, last run

vars == <<now, row, lock, uuids, track, lease, last, co, mg>>

\* the lock handle of a DoExclusively call: one per call, or, where the
\* calls are made on one DBLock, the same for both
HandleOf(p) ==
    IF track = "shared" THEN "h1"
    ELSE IF p = "p1" THEN "h1" ELSE "h2"

\* ------------------------------------------------------ the SQL statements
\* initLock: INSERT ... ON CONFLICT (lock_key) DO NOTHING / INSERT IGNORE
InitLockRow_Overwrites(r) ==
    [exists |-> TRUE, token |-> NULLTOKEN, expire_at |-> NULL]

InitLockRow(r) ==
    IF r.exists THEN r
    ELSE [exists |-> TRUE, token |-> NULLTOKEN, expire_at |-> NULL]

\* acquireLock:
\* WHERE lock_key = $3 AND ((expire_at IS NULL OR expire_at < NOW()) OR token = $4)
\* (token = $4 is not true of a NULL token)
AcquireWhere_ExpiresEarly(r, token, t) ==
    /\ r.exists
    /\ \/ r.expire_at = NULL
       \/ r.expire_at <= t
       \/ (r.token # NULLTOKEN /\ r.token = token)

AcquireWhere_NoExpiry(r, token, t) ==
    /\ r.exists
    /\ \/ r.expire_at = NULL
       \/ (r.token # NULLTOKEN /\ r.token = token)

AcquireWhere_NoReentry(r, token, t) ==
    /\ r.exists
    /\ \/ r.expire_at = NULL
       \/ r.expire_at < t

AcquireWhere(r, token, t) ==
    /\ r.exists
    /\ \/ r.expire_at = NULL
       \/ r.expire_at < t
       \/ (r.token # NULLTOKEN /\ r.token = token)

\* an Acquire that does not move expire_at of the lease it re-enters
AcquireSet_NoRefresh(r, token, t, ttl) ==
    IF r.token = token /\ r.expire_at # NULL /\ r.expire_at >= t
    THEN r
    ELSE [r EXCEPT !.expire_at = t + ttl, !.token = token]

\* SET expire_at = NOW() + $1::interval, token = $2
AcquireSet(r, token, t, ttl) ==
    [r EXCEPT !.expire_at = t + ttl, !.token = token]

\* releaseLock: WHERE lock_key = $1 AND token = $2 AND expire_at >= NOW()
ReleaseWhere_Lapsed(r, token, t) ==
    /\ r.exists
    /\ r.token = token
    /\ r.expire_at # NULL /\ r.expire_at < t

ReleaseWhere_AnyToken(r, token, t) ==
    /\ r.exists
    /\ r.expire_at # NULL
    /\ r.expire_at >= t

\* a releaseLock that tests the token only
ReleaseWhere_TokenOnly(r, token, t) ==
    /\ r.exists
    /\ r.token # NULLTOKEN /\ r.token = token

ReleaseWhere(r, token, t) ==
    /\ r.exists
    /\ r.token # NULLTOKEN /\ r.token = token
    /\ r.expire_at # NULL
    /\ r.expire_at >= t

\* an extendLock that refuses the lease at the instant expire_at
ExtendWhere_StrictlyBefore(r, token, t) ==
    /\ r.exists
    /\ r.token = token
    /\ r.expire_at # NULL
    /\ r.expire_at > t

\* extendLock: WHERE lock_key = $2 AND token = $3 AND expire_at >= NOW()
ExtendWhere_IgnoresExpiry(r, token, t) ==
    /\ r.exists
    /\ r.token = token

ExtendWhere(r, token, t) ==
    /\ r.exists
    /\ r.token # NULLTOKEN /\ r.token = token
    /\ r.expire_at # NULL
    /\ r.expire_at >= t

\* SET expire_at = NULL
\* a releaseLock that ends the lease at NOW() instead of clearing expire_at
ReleaseSet_ExpiresNow(r) == [r EXCEPT !.expire_at = now]

ReleaseSet(r) == [r EXCEPT !.expire_at = NULL]

\* SET expire_at = NOW() + $1::interval
ExtendSet_KeepsExpiry(r, t, ttl) == r

ExtendSet(r, t, ttl) == [r EXCEPT !.expire_at = t + ttl]

\* ------------------------------------------- execQueryAndCheckAffectedRow
\* the error the method returns, given where the call failed and the number
\* of rows the statement affected
execQueryAndCheckAffectedRow(fault, affected, errOnNoAffectedRows) ==
    IF fault = "execErr" THEN "execErr"
    ELSE IF fault = "ctxDone" THEN "ctxErr"
    ELSE IF affected = 0 THEN errOnNoAffectedRows
    ELSE "ok"

\* dbkit.DoInTx: begin, fn, commit when fn returned nil, rollback otherwise;
\* a plain connection returns what the method returned
DoInTx(exec, fault, methodRes) ==
    IF exec = "conn" THEN methodRes
    ELSE IF fault = "execErr" THEN "execErr"
    ELSE IF methodRes # "ok" THEN methodRes
    ELSE IF fault = "commitErr" THEN "commitErr"
    ELSE "ok"

\* the statement reached the server and ran there
Executed(fault) == fault # "execErr"

\* the statement's effect is durable: autocommit on a plain connection, the
\* commit of DoInTx in a transaction
Committed(exec, fault, callRes) ==
    /\ Executed(fault)
    /\ exec = "tx" => callRes = "ok"

\* a method that stores the token and the TTL whatever the statement returned
MethodOk_Always(fault, methodRes) == TRUE

\* the method body ran and returned nil
MethodOk(fault, methodRes) == methodRes = "ok"

\* what Acquire / Release / Extend return to the caller, DoInTx included
AcquireRes(token, exec, fault) ==
    DoInTx(exec, fault,
           execQueryAndCheckAffectedRow(fault,
               IF Executed(fault) /\ AcquireWhere(row, token, now) THEN 1 ELSE 0,
               ErrLockAlreadyAcquired))

ReleaseRes(token, exec, fault) ==
    DoInTx(exec, fault,
           execQueryAndCheckAffectedRow(fault,
               IF Executed(fault) /\ ReleaseWhere(row, token, now) THEN 1 ELSE 0,
               ErrLockAlreadyReleased))

ExtendRes(token, exec, fault) ==
    DoInTx(exec, fault,
           execQueryAndCheckAffectedRow(fault,
               IF Executed(fault) /\ ExtendWhere(row, token, now) THEN 1 ELSE 0,
               ErrLockAlreadyReleased))

\* ------------------------------------------------------------ bookkeeping
\* how a call with `token` finds the row: absent, free (expire_at IS NULL),
\* expired (expire_at < NOW()), or unexpired and held by its own token or
\* by another one
Found(r, token, t) ==
    IF ~r.exists THEN "absent"
    ELSE IF r.expire_at = NULL THEN "free"
    ELSE IF r.expire_at < t THEN "expired"
    ELSE IF r.token = token THEN "own"
    ELSE "other"

\* the runs that keep the record of the last call
Recording ==
    track \in {"calls", "do", "run", "keys", "tokens", "refresh", "shared", "joint"}

\* the record of a call: its inputs, how it found the row, the row before
\* it, its result, when it returned nil NOW() + ttl at the time it ran,
\* whether it ran at the very instant expire_at, and for NewLock the length
\* of the key
Call(op, h, token, until, exec, fault, res) ==
    IF Recording
    THEN [op |-> op, h |-> h, token |-> token, found |-> Found(row, token, now),
          before |-> row, until |-> IF res = "ok" THEN until ELSE NULL,
          exec |-> exec, fault |-> fault, res |-> res,
          due |-> row.expire_at = now, keyLen |-> NULL]
    ELSE last

NoLease == [held |-> FALSE, until |-> 0, renewed |-> FALSE]

\* the runs that keep the leases the callers were told they hold
Leasing == track \in {"leases", "refresh", "joint"}

\* the outcome of an Acquire that counts for the lease: what the call
\* returned, or, where the leases are those the row gives, whether the
\* statement wrote the row
Granted(res, wrote) ==
    IF track = "refresh" THEN (IF wrote THEN "ok" ELSE "none") ELSE res

\* what the caller of a call knows about its lease once the call returned:
\* nil from Acquire or Extend at NOW() = t0 with ttl gives a lease until
\* t0 + ttl, nil from Release ends it, an error changes nothing; the lease
\* is renewed when the caller acquired again before its lease had expired
\* (only the lease of the static token is followed for renewals)
LeaseAfter(l, op, res, until) ==
    IF ~Leasing \/ res # "ok" THEN l
    ELSE IF track = "refresh" /\ op # "AcquireStatic" THEN l
    ELSE IF op = "Release" THEN NoLease
    ELSE [held |-> TRUE, until |-> until,
          renewed |-> track = "refresh" /\ l.held /\ now <= l.until]

\* ------------------------------------------------------------------- Init
NoRow == [exists |-> FALSE, token |-> NULLTOKEN, expire_at |-> NULL]
NoCall == [op |-> "none", h |-> "h1", token |-> "", found |-> "absent",
           before |-> NoRow, until |-> NULL, exec |-> "conn", fault |-> "none",
           res |-> "ok", due |-> FALSE, keyLen |-> NULL]

\* the migrations table before it is created, no list of migrations yet
MaxMigs == 3
MigIDs == 1 .. MaxMigs
NoRun == [direction |-> "none", limit |-> 0, before |-> {}, order |-> <<>>,
          count |-> 0, err |-> FALSE, again |-> FALSE, after |-> 0,
          faulted |-> FALSE, had |-> {},
          failure |-> [at |-> 0, stage |-> "none"]]
NoMigrations == [list |-> <<>>, listed |-> FALSE,
                 table |-> [id \in MigIDs |-> "none"], schema |-> {},
                 run |-> NoRun, streak |-> 0]

\* the token and ttl a statement carries; none yet
NoCarry == [op |-> "none", token |-> "", ttl |-> 0]

\* a DoExclusively call that has not been made yet
Idle == [pc |-> "idle", rpc |-> "none", ttl |-> 0, interval |-> 0,
         nextTick |-> NULL, ctx |-> FALSE, cancelled |-> FALSE,
         doneClosed |-> FALSE, acq |-> "none", fnRes |-> "none",
         result |-> "none", ext |-> "ok", forced |-> FALSE,
         since |-> NULL, lostAt |-> NULL,
         releases |-> 0, relCtx |-> "none", dbFault |-> FALSE,
         ran |-> NULL, log |-> {}, options |-> <<>>, opts |-> <<>>,
         own |-> NoCarry, sent |-> NoCarry,
         count |-> [op \in {"Acquire", "Extend", "Release"} |-> 0]]

\* the processes that call DoExclusively in the run
Callers == IF track \in {"do", "run", "opts", "shared", "stop"} THEN Procs ELSE {}

InitStore ==
    /\ now = 0
    /\ row = NoRow
    /\ lock = [h \in Handles |-> [created |-> FALSE, token |-> "", TTL |-> 0]]
    /\ uuids = 0
    /\ lease = [h \in Handles |-> NoLease]
    /\ last = NoCall
    /\ co = [p \in Callers |-> Idle]
    /\ mg = NoMigrations

Init == track \in {"calls", "leases"} /\ InitStore

\* ------------------------------------------------------ DBManager.NewLock
\* NewLock that checks the length after the statement ran
NewLockRes_ChecksKeyLate(keyLen, fault) ==
    IF fault = "execErr" THEN "execErr"
    ELSE IF keyLen = 0 THEN "ErrEmptyKey"
    ELSE IF keyLen > MaxKeyLen THEN "ErrLongKey"
    ELSE "ok"

\* the error of NewLock for a key of keyLen bytes
NewLockRes(keyLen, fault) ==
    IF keyLen = 0 THEN "ErrEmptyKey"
    ELSE IF keyLen > MaxKeyLen THEN "ErrLongKey"
    ELSE IF fault = "execErr" THEN "execErr"
    ELSE "ok"

NewLockEffect(h, keyLen, fault) ==
    LET res == NewLockRes(keyLen, fault) IN
    /\ row' = IF res = "ok" THEN InitLockRow(row) ELSE row
    /\ lock' = IF res = "ok"
               THEN [lock EXCEPT ![h] = [created |-> TRUE, token |-> "", TTL |-> 0]]
               ELSE lock
    /\ last' = [Call("NewLock", h, "", NULL, "conn", fault, res)
                 EXCEPT !.keyLen = IF Recording THEN keyLen ELSE @]

NewLock(h) ==
    /\ ~lock[h].created
    /\ \E keyLen \in KeyLens, fault \in {"none", "execErr"} : NewLockEffect(h, keyLen, fault)
    /\ UNCHANGED <<now, uuids, track, mg, lease, co>>

\* ------------------------------------------ DBLock.AcquireWithStaticToken
\* the effect of the method on the row, the handle and the history
AcquireWithStaticToken(op, h, token, lockTTL, exec, fault) ==
    LET matched == AcquireWhere(row, token, now)
        affected == IF Executed(fault) /\ matched THEN 1 ELSE 0
        methodRes == execQueryAndCheckAffectedRow(fault, affected, ErrLockAlreadyAcquired)
        res == AcquireRes(token, exec, fault)
    IN
    /\ row' = IF matched /\ Committed(exec, fault, res)
              THEN AcquireSet(row, token, now, lockTTL) ELSE row
    /\ lock' = IF MethodOk(fault, methodRes)
               THEN [lock EXCEPT ![h].TTL = lockTTL, ![h].token = token]
               ELSE lock
    /\ lease' = [lease EXCEPT ![h] =
                    LeaseAfter(@, op, Granted(res, matched /\ Committed(exec, fault, res)),
                               now + lockTTL)]
    /\ last' = Call(op, h, token, now + lockTTL, exec, fault, res)

AcquireStatic(h) ==
    /\ lock[h].created
    /\ \E token \in StaticTokens, lockTTL \in TTLs, exec \in Executors :
         \E fault \in Faults(exec) :
           AcquireWithStaticToken("AcquireStatic", h, token, lockTTL, exec, fault)
    /\ UNCHANGED <<now, uuids, track, mg, co>>

\* --------------------------------------------------------- DBLock.Acquire
Acquire(h) ==
    /\ lock[h].created
    /\ uuids < MaxUuid
    /\ uuids' = uuids + 1
    /\ \E lockTTL \in TTLs, exec \in Executors :
         \E fault \in Faults(exec) :
           AcquireWithStaticToken("Acquire", h, Uuid(uuids + 1), lockTTL, exec, fault)
    /\ UNCHANGED <<now, track, mg, co>>

\* --------------------------------------------------------- DBLock.Release
ReleaseLock(h, exec, fault) ==
    LET matched == ReleaseWhere(row, lock[h].token, now)
        res == ReleaseRes(lock[h].token, exec, fault)
    IN
    /\ row' = IF matched /\ Committed(exec, fault, res) THEN ReleaseSet(row) ELSE row
    /\ lease' = [lease EXCEPT ![h] = LeaseAfter(@, "Release", res, 0)]
    /\ last' = Call("Release", h, lock[h].token, NULL, exec, fault, res)
    /\ UNCHANGED lock

Release(h) ==
    /\ lock[h].created
    /\ \E exec \in Executors : \E fault \in Faults(exec) : ReleaseLock(h, exec, fault)
    /\ UNCHANGED <<now, uuids, track, mg, co>>

\* ---------------------------------------------------------- DBLock.Extend
ExtendLock(h, exec, fault) ==
    LET matched == ExtendWhere(row, lock[h].token, now)
        res == ExtendRes(lock[h].token, exec, fault)
    IN
    /\ row' = IF matched /\ Committed(exec, fault, res)
              THEN ExtendSet(row, now, lock[h].TTL) ELSE row
    /\ lease' = [lease EXCEPT ![h] = LeaseAfter(@, "Extend", res, now + lock[h].TTL)]
    /\ last' = Call("Extend", h, lock[h].token, now + lock[h].TTL, exec, fault, res)
    /\ UNCHANGED lock

Extend(h) ==
    /\ lock[h].created
    /\ \E exec \in Executors : \E fault \in Faults(exec) : ExtendLock(h, exec, fault)
    /\ UNCHANGED <<now, uuids, track, mg, co>>

\* ------------------------------------------------------------------ time
Tick ==
    /\ now < MaxTime
    /\ now' = now + 1
    /\ UNCHANGED <<row, lock, uuids, track, mg, lease, last, co>>

Next ==
    \/ \E h \in Handles : NewLock(h)
    \/ \E h \in Handles : Acquire(h)
    \/ \E h \in StaticUsers : AcquireStatic(h)
    \/ \E h \in Handles : Release(h)
    \/ \E h \in Handles : Extend(h)
    \/ Tick

Spec == Init /\ [][Next]_vars

\* ------------------------------------------------- NewLock, every key length
\* one caller tries keys of every length from 0 to one past the limit until
\* NewLock gives it a handle, then uses the handle
AllKeyLens == 0 .. MaxKeyLen + 1
KeyUser == "h1"

InitKeys == track = "keys" /\ InitStore

NewLockAnyKey ==
    /\ ~lock[KeyUser].created
    /\ \E keyLen \in AllKeyLens, fault \in {"none", "execErr"} :
         NewLockEffect(KeyUser, keyLen, fault)
    /\ UNCHANGED <<now, uuids, track, mg, lease, co>>

NextKeys ==
    \/ NewLockAnyKey
    \/ Acquire(KeyUser)
    \/ AcquireStatic(KeyUser)
    \/ Release(KeyUser)
    \/ Extend(KeyUser)
    \/ Tick

SpecKeys == InitKeys /\ [][NextKeys]_vars

\* ========================================================= DoExclusively
\* The time unit is 30 seconds: the default ttl of 1 minute is 2 units and
\* the default renewal interval (ttl / 2) is 1 unit.
DefaultTTL == 2

Dialects == {"postgres", "unsupported"}

\* the calls whose caller cancels the context it passed, and the calls whose
\* row another actor releases
Cancelling == {"p1"}
Forcible == {"p1"}

\* the options a caller passes: none, or WithLockTTL(1) together with
\* WithPeriodicExtendInterval(MaxDoTime); 0 is the unset option
DoOptions == {[lockTTL |-> 0, periodicExtendInterval |-> 0],
              [lockTTL |-> 1, periodicExtendInterval |-> MaxDoTime],
              [lockTTL |-> 2, periodicExtendInterval |-> 1]}

lockTTL(opts) == IF opts.lockTTL = 0 THEN DefaultTTL ELSE opts.lockTTL

periodicExtendInterval(opts) ==
    IF opts.periodicExtendInterval = 0 THEN lockTTL(opts) \div 2
    ELSE opts.periodicExtendInterval

\* the faults of a statement the coordinator runs in DoInTx under a context:
\* BeginTx fails on a cancelled context
CoFaults(ctxCancelled) ==
    IF ctxCancelled THEN {"execErr"} ELSE {"none", "execErr", "commitErr"}

\* the context handed to fn is cancelled with the caller's context, or by
\* childCtxCancel
WorkCtxDone(p) == co[p].ctx \/ co[p].cancelled

\* between the coordinator's Acquire and its Release
Active(p) == co[p].pc \in {"fn", "stop", "wait", "release"}

\* where DoExclusively goes after the acquire step
AfterAcquire_IgnoresError(acquireLockErr) == "fn"

AfterAcquire_ReleasesOnError(acquireLockErr) ==
    IF acquireLockErr = "ok" THEN "fn" ELSE "release"

AfterAcquire(acquireLockErr) == IF acquireLockErr = "ok" THEN "fn" ELSE "done"

\* errors.Is(extendErr, ErrLockAlreadyReleased): cancel the work and return
StopsRenewal_Never(extendErr) == FALSE

StopsRenewal_OnAnyError(extendErr) == TRUE

\* a renewal goroutine that compares with the other sentinel error
StopsRenewal_OnAlreadyAcquired(extendErr) == extendErr = ErrLockAlreadyAcquired

StopsRenewal(extendErr) == extendErr = ErrLockAlreadyReleased

\* what DoExclusively returns once fn has returned and the defers have run
ReturnValue_OfRelease(fnErr, releaseLockErr) ==
    IF releaseLockErr # "ok" THEN releaseLockErr ELSE fnErr

ReturnValue(fnErr, releaseLockErr) == fnErr

\* the worst outcome of the Extend calls of one DoExclusively call so far
ExtAfter(ext, res) ==
    IF res = "ok" THEN ext
    ELSE IF res = ErrLockAlreadyReleased /\ ext = "ok" THEN "released"
    ELSE IF res = ErrLockAlreadyReleased THEN ext
    ELSE "fault"

\* the row of the running call q stops being q's: remember when
Lost(q, taken) ==
    IF taken /\ co[q].pc = "fn" /\ co[q].lostAt = NULL
    THEN [co[q] EXCEPT !.lostAt = now]
    ELSE co[q]

\* <-periodicalExtensionExit: the deferred handshake blocks until the renewal
\* goroutine has closed the channel
ExitAwaited_NoWait(p) == TRUE

ExitAwaited(p) == co[p].rpc = "exited"

\* defer childCtxCancel(): runs after the handshake and before the release
childCtxCancel_NotDeferred(cancelled) == cancelled

childCtxCancel(cancelled) == TRUE

\* releaseCtx is context.WithTimeout(context.Background(), releaseTimeout):
\* it is live when the Release is attempted, whatever happened to ctx
ReleaseCtxCancelled_WithCaller(p) == co[p].ctx

ReleaseCtxCancelled(p) == FALSE

\* where two calls share a DBLock: the token and ttl the statement `op` of
\* a call carries, read from the handle when the statement is issued
Carried(carry, op, h, sets) ==
    IF track = "shared" /\ sets
    THEN [op |-> op, token |-> lock[h].token,
          ttl |-> IF op = "Release" THEN 0 ELSE lock[h].TTL]
    ELSE carry

\* in a run of the scenario: the statements of each kind that returned nil
Counted(count, op, res) ==
    IF track = "run" /\ res = "ok" THEN [count EXCEPT ![op] = @ + 1] ELSE count

\* opts.logger.Errorf: the errors the call reports to the logger
LogsExtend(extendErr) == extendErr # "ok"

LogsRelease(releaseLockErr) == releaseLockErr # "ok"

InitDo == track = "do" /\ InitStore

\* the package level DoExclusively up to the acquire step: NewDBManager,
\* NewLock and the option defaults
DoCall(p) ==
    /\ co[p].pc = "idle"
    /\ \E dialect \in Dialects, keyLen \in KeyLens, fault \in {"none", "execErr"},
          opts \in DoOptions :
         IF dialect = "unsupported"
         THEN /\ co' = [co EXCEPT ![p].pc = "done",
                                  ![p].result = "create DB manager"]
              /\ UNCHANGED <<row, lock, last>>
         ELSE /\ NewLockEffect(HandleOf(p), keyLen, fault)
              /\ co' = [co EXCEPT ![p] =
                   IF NewLockRes(keyLen, fault) = "ok"
                   THEN [@ EXCEPT !.pc = "acquire",
                                  !.ttl = lockTTL(opts),
                                  !.interval = periodicExtendInterval(opts)]
                   ELSE [@ EXCEPT !.pc = "done",
                                  !.result = "create new lock: "
                                             \o NewLockRes(keyLen, fault)]]
    /\ UNCHANGED <<now, uuids, track, mg, lease>>

\* the caller cancels the context it passed
CancelCtx(p) ==
    /\ co[p].pc \in {"acquire", "fn"}
    /\ ~co[p].ctx
    /\ co' = [co EXCEPT ![p].ctx = TRUE]
    /\ UNCHANGED <<now, row, lock, uuids, track, mg, lease, last>>

\* DoInTx(ctx, Acquire); on success the defers are registered and the
\* renewal goroutine is started with its ticker
DoAcquire(p) ==
    /\ co[p].pc = "acquire"
    /\ uuids < MaxUuid
    /\ uuids' = uuids + 1
    /\ \E fault \in CoFaults(co[p].ctx) :
         LET h == HandleOf(p)
             token == Uuid(uuids + 1)
             res == AcquireRes(token, "tx", fault)
             ok == AfterAcquire(res) = "fn"
         IN
         /\ AcquireWithStaticToken("Acquire", h, token, co[p].ttl, "tx", fault)
         /\ co' = [q \in Procs |->
              IF q = p
              THEN [co[p] EXCEPT
                      !.pc = AfterAcquire(res),
                      !.acq = res,
                      !.result = IF ok THEN @ ELSE res,
                      !.rpc = IF ok THEN "select" ELSE @,
                      !.nextTick = IF ok THEN now + co[p].interval ELSE @,
                      !.since = IF ok THEN now ELSE @,
                      !.own = IF track = "shared" /\ ok
                              THEN [op |-> "Acquire", token |-> token, ttl |-> co[p].ttl]
                              ELSE @,
                      !.count = Counted(@, "Acquire", res)]
              ELSE Lost(q, res = "ok" /\ row.token = lock[HandleOf(q)].token)]
    /\ UNCHANGED <<now, track, mg>>

\* DoInTx(ctx, Extend) returns to the renewal goroutine, which logs the
\* error and, on ErrLockAlreadyReleased, cancels the work and returns
ExtendReturns(p) ==
    /\ \E fault \in CoFaults(co[p].ctx) :
         LET res == ExtendRes(lock[HandleOf(p)].token, "tx", fault) IN
         /\ ExtendLock(HandleOf(p), "tx", fault)
         /\ co' = [co EXCEPT
                     ![p].nextTick = @ + co[p].interval,
                     ![p].ext = ExtAfter(@, res),
                     ![p].sent = Carried(@, "Extend", HandleOf(p), fault # "execErr"),
                     ![p].dbFault = @ \/ (fault # "none" /\ ~co[p].ctx),
                     ![p].count = Counted(@, "Extend", res),
                     ![p].log = IF LogsExtend(res) THEN @ \cup {"extend"} ELSE @,
                     ![p].cancelled = IF res # "ok" /\ StopsRenewal(res) THEN TRUE ELSE @,
                     ![p].rpc = IF res # "ok" /\ StopsRenewal(res)
                                THEN "exited" ELSE "select"]
    /\ UNCHANGED <<now, uuids, track, mg>>

\* case <-ticker.C: DoInTx(ctx, Extend)
RenewTick(p) ==
    /\ co[p].rpc = "select"
    /\ now >= co[p].nextTick
    /\ ExtendReturns(p)

\* case <-periodicalExtensionDone: return, closing periodicalExtensionExit
RenewStop(p) ==
    /\ co[p].rpc = "select"
    /\ co[p].doneClosed
    /\ co' = [co EXCEPT ![p].rpc = "exited"]
    /\ UNCHANGED <<now, row, lock, uuids, track, mg, lease, last>>

\* fn returns v
FnReturn(p, v) ==
    /\ co[p].pc = "fn"
    /\ co' = [co EXCEPT ![p].pc = "stop", ![p].fnRes = v,
                        ![p].ran = IF track = "run" THEN now - co[p].since ELSE @]
    /\ UNCHANGED <<now, row, lock, uuids, track, mg, lease, last>>

\* close(periodicalExtensionDone) needs no receiver: it returns at once
\* whatever the renewal goroutine is doing, unlike a send on the channel
CloseReturns_AsSend(p) == co[p].rpc = "select"

CloseReturns(p) == TRUE

\* the last registered defer: close(periodicalExtensionDone)
CloseDone(p) ==
    /\ co[p].pc = "stop"
    /\ CloseReturns(p)
    /\ co' = [co EXCEPT ![p].pc = "wait", ![p].doneClosed = TRUE]
    /\ UNCHANGED <<now, row, lock, uuids, track, mg, lease, last>>

\* <-periodicalExtensionExit, then the deferred childCtxCancel
WaitExit(p) ==
    /\ co[p].pc = "wait"
    /\ ExitAwaited(p)
    /\ co' = [co EXCEPT ![p].pc = "release",
                        ![p].cancelled = childCtxCancel(@)]
    /\ UNCHANGED <<now, row, lock, uuids, track, mg, lease, last>>

\* the first registered defer: DoInTx(releaseCtx, Release) under a fresh
\* context; its error is logged
DoRelease(p) ==
    /\ co[p].pc = "release"
    /\ \E fault \in CoFaults(ReleaseCtxCancelled(p)) :
         LET res == ReleaseRes(lock[HandleOf(p)].token, "tx", fault) IN
         /\ ReleaseLock(HandleOf(p), "tx", fault)
         /\ co' = [co EXCEPT ![p].pc = "done",
                             ![p].releases = @ + 1,
                             ![p].sent = Carried(@, "Release", HandleOf(p), fault # "execErr"),
                             ![p].count = Counted(@, "Release", res),
                             ![p].log = IF LogsRelease(res)
                                        THEN @ \cup {"release"} ELSE @,
                             ![p].relCtx = IF ReleaseCtxCancelled(p)
                                           THEN "cancelled" ELSE "live",
                             ![p].result = ReturnValue(co[p].fnRes, res)]
    /\ UNCHANGED <<now, uuids, track, mg>>

\* another actor releases the row of a running call through its handle
ForcedRelease(p) ==
    /\ co[p].pc = "fn"
    /\ ~co[p].forced
    /\ ReleaseWhere(row, lock[HandleOf(p)].token, now)
    /\ ReleaseLock(HandleOf(p), "tx", "none")
    /\ co' = [co EXCEPT ![p] = [Lost(p, TRUE) EXCEPT !.forced = TRUE]]
    /\ UNCHANGED <<now, uuids, track, mg>>

\* time passes once the tickers that are due have been served and the
\* returning calls have run their defers
DoTick ==
    /\ now < MaxDoTime
    /\ \A p \in Procs :
         /\ ~(co[p].rpc = "select" /\ now >= co[p].nextTick)
         /\ co[p].pc \notin {"stop", "wait", "release"}
    /\ now' = now + 1
    /\ UNCHANGED <<row, lock, uuids, track, mg, lease, last, co>>

NextDo ==
    \/ \E p \in Procs : DoCall(p)
    \/ \E p \in Cancelling : CancelCtx(p)
    \/ \E p \in Procs : DoAcquire(p)
    \/ \E p \in Procs : RenewTick(p)
    \/ \E p \in Procs : RenewStop(p)
    \/ \E p \in Procs : \E v \in {"nil", "fnErr"} : FnReturn(p, v)
    \/ \E p \in Procs : CloseDone(p)
    \/ \E p \in Procs : WaitExit(p)
    \/ \E p \in Procs : DoRelease(p)
    \/ \E p \in Forcible : ForcedRelease(p)
    \/ DoTick

SpecDo == InitDo /\ [][NextDo]_vars

\* ===================================================== the stop handshake
\* One DoExclusively call whose row another actor may release, with the
\* Extend of the renewal goroutine in two steps: the ticker fires and the
\* statement is issued, then DoInTx returns. The deferred
\* close(periodicalExtensionDone) may come between the two.
Stopper == "p1"

InitStop == track = "stop" /\ InitStore

StopCall == track = "stop" /\ DoCall(Stopper)

\* case <-ticker.C: the Extend is issued
TickerFires ==
    /\ track = "stop"
    /\ co[Stopper].rpc = "select"
    /\ now >= co[Stopper].nextTick
    /\ co' = [co EXCEPT ![Stopper].rpc = "extend"]
    /\ UNCHANGED <<now, row, lock, uuids, track, mg, lease, last>>

ExtendDone ==
    /\ co[Stopper].rpc = "extend"
    /\ ExtendReturns(Stopper)

NextStop ==
    \/ StopCall
    \/ DoAcquire(Stopper)
    \/ TickerFires
    \/ ExtendDone
    \/ RenewStop(Stopper)
    \/ \E v \in {"nil", "fnErr"} : FnReturn(Stopper, v)
    \/ CloseDone(Stopper)
    \/ WaitExit(Stopper)
    \/ DoRelease(Stopper)
    \/ ForcedRelease(Stopper)
    \/ DoTick

\* every goroutine that can take a step takes it, every database call
\* returns, and a select with several ready cases does not pass one over
\* forever
StopFairness ==
    /\ WF_vars(ExtendDone)
    /\ SF_vars(RenewStop(Stopper))
    /\ WF_vars(CloseDone(Stopper))
    /\ WF_vars(WaitExit(Stopper))
    /\ WF_vars(DoRelease(Stopper))

SpecStop == InitStop /\ [][NextStop]_vars /\ StopFairness

\* ========================================================== the scenario
\* One DoExclusively call with WithLockTTL(2) and WithPeriodicExtendInterval(1)
\* (ttl 200 ms, interval 100 ms, in units of 100 ms) on a free key, with no
\* other actor and no database error; fn runs for any time, the scenario's
\* 500 ms included.
Scenario == [lockTTL |-> 2, periodicExtendInterval |-> 1, work |-> 5]

InitRun == track = "run" /\ InitStore

RunCall ==
    /\ DoCall("p1")
    /\ co'["p1"].pc = "acquire"
    /\ co'["p1"].ttl = Scenario.lockTTL
    /\ co'["p1"].interval = Scenario.periodicExtendInterval

RunAcquire == DoAcquire("p1") /\ last'.fault = "none"

RunRenewTick == RenewTick("p1") /\ last'.fault = "none"

RunRenewStop == RenewStop("p1")

RunFnReturn == \E v \in {"nil", "fnErr"} : FnReturn("p1", v)

RunCloseDone == CloseDone("p1")

RunWaitExit == WaitExit("p1")

RunRelease == DoRelease("p1") /\ last'.fault = "none"

RunTick ==
    /\ now < MaxRunTime
    /\ ~(co["p1"].rpc = "select" /\ now >= co["p1"].nextTick)
    /\ co["p1"].pc \notin {"stop", "wait", "release"}
    /\ now' = now + 1
    /\ UNCHANGED <<row, lock, uuids, track, mg, lease, last, co>>

NextRun ==
    \/ RunCall
    \/ RunAcquire
    \/ RunRenewTick
    \/ RunRenewStop
    \/ RunFnReturn
    \/ RunCloseDone
    \/ RunWaitExit
    \/ RunRelease
    \/ RunTick

SpecRun == InitRun /\ [][NextRun]_vars

\* ======================================================== the lock store
IsAcquire(op) == op \in {"Acquire", "AcquireStatic"}
Held(r, t) == r.exists /\ r.expire_at # NULL /\ r.expire_at >= t

\* C1: of two Acquire calls with different tokens that the database runs one
\* after the other on a free row, the second not later than the first one's
\* expire_at, the first returns nil and the second ErrLockAlreadyAcquired
\* (calls that a transport or context error cut short are not counted): an
\* Acquire that finds the row free returns nil and takes the row, and an
\* Acquire that finds it unexpired under another token returns
\* ErrLockAlreadyAcquired and leaves the row to the first.
C1_ExactlyOneAcquires ==
    (IsAcquire(last.op) /\ last.fault = "none") =>
        /\ last.found \in {"free", "expired"} =>
              /\ last.res = "ok"
              /\ row.token = last.token
        /\ last.found = "other" =>
              /\ last.res = ErrLockAlreadyAcquired
              /\ row = last.before

\* the second of two Acquire calls was refused and the row the first one
\* took is still held by the first
C1_Witness ==
    /\ IsAcquire(last.op) /\ last.fault = "none" /\ last.found = "other"
    /\ last.res = ErrLockAlreadyAcquired
    /\ Held(row, now) /\ row.token # last.token
    /\ \E h \in Handles : h # last.h /\ lock[h].token = row.token

\* the holder's view: the caller of handle h was told it holds a lease that
\* has not run out
ValidLease(h) == lease[h].held /\ now <= lease[h].until

\* C2: at most one handle holds a valid lease (the handles of Spec use
\* pairwise different tokens: h2 only random ones, h1 random ones and s1).
C2_AtMostOneValidLease ==
    \A g, h \in Handles : (ValidLease(g) /\ ValidLease(h)) => g = h

\* C6: once its expire_at has passed, a lease is taken over by an Acquire
\* with a different token, with no Release in between: the Acquire returns
\* nil and the row carries its token and now + ttl.
C6_ExpiredIsReclaimed ==
    (IsAcquire(last.op) /\ last.fault = "none" /\ last.found = "expired"
       /\ last.before.token # last.token) =>
        /\ last.res = "ok"
        /\ row.token = last.token
        /\ row.expire_at = last.until

\* an Acquire took over a row that another token had held until it expired
C6_Witness ==
    /\ IsAcquire(last.op) /\ last.fault = "none" /\ last.found = "expired"
    /\ last.before.token \notin {NULLTOKEN, last.token}
    /\ last.res = "ok" /\ row.token = last.token

\* C7: AcquireWithStaticToken with the token of the unexpired lease returns
\* nil, sets expire_at to now + ttl of the call and keeps the token.
C7_ReentrantAcquire ==
    (last.op = "AcquireStatic" /\ last.fault = "none" /\ last.found = "own") =>
        /\ last.res = "ok"
        /\ row.token = last.before.token
        /\ row.expire_at = last.until

\* the holder acquired again with its static token before the lease expired
\* and the lease got a new expire_at
C7_Witness ==
    /\ last.op = "AcquireStatic" /\ last.fault = "none" /\ last.found = "own"
    /\ last.res = "ok" /\ row.token = last.token
    /\ row.expire_at # last.before.expire_at

\* C8: Release from a handle whose token is not the row's token leaves the
\* row as it is and returns ErrLockAlreadyReleased.
C8_ReleaseIsTokenScoped ==
    (last.op = "Release" /\ last.token # last.before.token) =>
        /\ row = last.before
        /\ last.fault = "none" => last.res = ErrLockAlreadyReleased

\* a handle that is not the holder called Release and the holder's lease stands
C8_Witness ==
    /\ last.op = "Release" /\ last.fault = "none" /\ last.found = "other"
    /\ last.res = ErrLockAlreadyReleased
    /\ Held(row, now) /\ row.token # last.token

\* the last call was an Extend or a Release that ran without a transport
\* error with the token of the row
MatchingExtendOrRelease ==
    /\ last.op \in {"Extend", "Release"}
    /\ last.fault = "none"
    /\ last.before.exists /\ last.token = last.before.token

\* the row the last call found had expire_at non-null and expire_at >= NOW()
FoundUnexpired == last.before.expire_at # NULL /\ last.found # "expired"

\* C19 as stated: Extend and Release with the matching token return nil
\* exactly when the row they find has expire_at non-null and expire_at > now;
\* otherwise they return ErrLockAlreadyReleased and leave the row unchanged.
C19_SucceedIffStrictlyHeld ==
    MatchingExtendOrRelease =>
        IF FoundUnexpired /\ ~last.due
        THEN last.res = "ok"
        ELSE last.res = ErrLockAlreadyReleased /\ row = last.before

\* C19: Extend and Release with the matching token return nil exactly when
\* the row they find has expire_at non-null and expire_at >= now; on a row
\* that was never acquired, was released or has expired they return
\* ErrLockAlreadyReleased and leave the row unchanged.
C19_SucceedIffUnexpired ==
    MatchingExtendOrRelease =>
        IF FoundUnexpired
        THEN last.res = "ok"
        ELSE last.res = ErrLockAlreadyReleased /\ row = last.before

\* a Release by the last holder after its ttl elapsed, nobody else having
\* acquired the key, returned ErrLockAlreadyReleased
C19_Witness ==
    /\ MatchingExtendOrRelease /\ last.op = "Release"
    /\ last.found = "expired"
    /\ last.res = ErrLockAlreadyReleased /\ row = last.before

\* C20: a successful NewLock leaves an existing row as it is, token and
\* expire_at included, and creates an absent row free, with no token and no
\* expire_at; a failed NewLock leaves the table as it is.
C20_NewLockIsIdempotent ==
    last.op = "NewLock" =>
        IF last.res = "ok" /\ ~last.before.exists
        THEN row = [exists |-> TRUE, token |-> NULLTOKEN, expire_at |-> NULL]
        ELSE row = last.before

\* a handle was created for the key while another handle holds an unexpired
\* lease on it, and the lease stands
C20_Witness ==
    /\ last.op = "NewLock" /\ last.res = "ok"
    /\ last.before.exists /\ last.before.token # NULLTOKEN
    /\ Held(row, now) /\ row = last.before
    /\ \E h \in Handles : h # last.h /\ lock[h].token = row.token

\* ========================================================= DoExclusively
\* the call that made the last statement through its handle
IsLastOf(p, op) == last.op = op /\ last.h = HandleOf(p)

\* C3: the periods in which two DoExclusively calls on the same key run
\* their fn never overlap.
C3_FnPeriodsNeverOverlap ==
    \A p, q \in Procs : (co[p].pc = "fn" /\ co[q].pc = "fn") => p = q

\* C4: the call whose Acquire finds the unexpired lease of the other call
\* returns ErrLockAlreadyAcquired and never invokes its fn.
C4_SecondCallIsRefused ==
    \A p \in Procs :
        (IsLastOf(p, "Acquire") /\ last.fault = "none" /\ last.found = "other") =>
            /\ co[p].pc = "done"
            /\ co[p].result = ErrLockAlreadyAcquired
            /\ co[p].fnRes = "none"
            /\ co[p].rpc = "none"

\* the first call is running its fn on a valid lease while the second call
\* has returned ErrLockAlreadyAcquired
C4_Witness ==
    \E p, q \in Procs :
        /\ p # q
        /\ co[p].pc = "fn" /\ Held(row, now) /\ row.token = lock[HandleOf(p)].token
        /\ IsLastOf(q, "Acquire") /\ last.fault = "none" /\ last.found = "other"
        /\ co[q].pc = "done" /\ co[q].result = ErrLockAlreadyAcquired

\* the premise of C5: the renewal interval is shorter than the ttl, every
\* Extend so far succeeded, and no actor released the row through the handle
Renewed(p) ==
    /\ Active(p)
    /\ co[p].interval < co[p].ttl
    /\ co[p].ext = "ok"
    /\ ~co[p].forced

\* C5: while a call is between its Acquire and its Release with the renewal
\* interval shorter than the ttl and every Extend succeeding, the row holds
\* its unexpired lease and no Acquire of another token has succeeded.
C5_RenewalKeepsTheLease ==
    \A p \in Procs :
        Renewed(p) =>
            /\ Held(row, now)
            /\ row.token = lock[HandleOf(p)].token
            /\ \A q \in Procs \ {p} : ~(IsLastOf(q, "Acquire") /\ last.res = "ok")

\* fn has run for longer than the ttl and more than one interval, and the
\* other call has just been refused
C5_Witness ==
    \E p, q \in Procs :
        /\ p # q
        /\ Renewed(p) /\ co[p].pc = "fn"
        /\ now > co[p].since + co[p].ttl
        /\ now >= co[p].since + 2 * co[p].interval
        /\ IsLastOf(q, "Acquire") /\ last.fault = "none"
        /\ last.res = ErrLockAlreadyAcquired

\* C9: an Extend of the renewal goroutine that finds the row released or
\* taken over returns ErrLockAlreadyReleased, the work context is cancelled
\* and the goroutine exits; a running fn whose row another actor released or
\* took over has its work context cancelled within one renewal interval.
C9_LostLeaseCancelsWork ==
    \A p \in Procs :
        /\ (IsLastOf(p, "Extend") /\ last.fault = "none" /\ last.found # "own") =>
              /\ last.res = ErrLockAlreadyReleased
              /\ co[p].cancelled
              /\ co[p].rpc = "exited"
        /\ (co[p].pc = "fn" /\ co[p].lostAt # NULL /\ co[p].ext # "fault"
            /\ ~WorkCtxDone(p)) =>
              /\ now <= co[p].lostAt + co[p].interval
              /\ now <= co[p].nextTick
              /\ co[p].rpc = "select"

\* fn is still running, the row was lost at an earlier time, and the Extend
\* of the next tick has returned ErrLockAlreadyReleased and cancelled the work
C9_Witness ==
    \E p \in Procs :
        /\ co[p].pc = "fn" /\ co[p].lostAt # NULL /\ co[p].lostAt < now
        /\ IsLastOf(p, "Extend") /\ last.res = ErrLockAlreadyReleased
        /\ co[p].cancelled /\ ~co[p].ctx
        /\ co[p].ext = "released"

\* C10 as stated: a returned call returns the error of its acquire step or
\* the value of its fn.
C10_AcquireErrorOrFnValue ==
    \A p \in Procs :
        co[p].pc = "done" =>
            \/ co[p].acq \notin {"none", "ok"} /\ co[p].result = co[p].acq
            \/ co[p].fnRes # "none" /\ co[p].result = co[p].fnRes

\* C10: a returned call returns the error of creating the manager or the
\* lock handle, or the error of its acquire step, or the value of its fn;
\* fn is invoked exactly when the acquire step succeeds and no outcome of
\* Extend or Release is returned.
C10_CreateOrAcquireErrorOrFnValue ==
    \A p \in Procs :
        co[p].pc = "done" =>
            IF co[p].acq = "none"
            THEN /\ co[p].result \in {"create DB manager",
                                      "create new lock: ErrEmptyKey",
                                      "create new lock: ErrLongKey",
                                      "create new lock: execErr"}
                 /\ co[p].fnRes = "none"
            ELSE IF co[p].acq # "ok"
            THEN co[p].result = co[p].acq /\ co[p].fnRes = "none"
            ELSE co[p].fnRes # "none" /\ co[p].result = co[p].fnRes

\* a call whose Extend failed and whose Release failed has returned the
\* error of its fn
C10_Witness ==
    \E p \in Procs :
        /\ co[p].pc = "done" /\ co[p].acq = "ok"
        /\ co[p].ext = "fault"
        /\ IsLastOf(p, "Release") /\ last.res # "ok"
        /\ co[p].result = "fnErr"

\* C11: a call whose acquire step failed has returned the acquire error
\* without invoking fn, without starting the renewal goroutine or its
\* ticker, and without issuing an Extend or a Release.
C11_FailedAcquireAborts ==
    \A p \in Procs :
        co[p].acq \notin {"none", "ok"} =>
            /\ co[p].pc = "done"
            /\ co[p].result = co[p].acq
            /\ co[p].fnRes = "none"
            /\ co[p].rpc = "none" /\ co[p].nextTick = NULL
            /\ ~co[p].doneClosed /\ ~co[p].cancelled
            /\ ~IsLastOf(p, "Extend") /\ ~IsLastOf(p, "Release")

\* the acquire step failed at Commit, the call has returned that error and
\* the row is as it was before the call
C11_Witness ==
    \E p \in Procs :
        /\ co[p].pc = "done" /\ co[p].acq = "commitErr"
        /\ co[p].result = "commitErr"
        /\ IsLastOf(p, "Acquire") /\ row = last.before

\* C12: once a call has started its Release, and once it has returned, its
\* renewal goroutine has exited: a goroutine that can still issue an Extend
\* belongs to a call that is in fn or in the handshake.
C12_RenewalExitsBeforeRelease ==
    \A p \in Procs :
        /\ (co[p].acq = "ok" /\ co[p].pc \in {"release", "done"}) =>
              co[p].rpc = "exited"
        /\ co[p].rpc = "select" => co[p].pc \in {"fn", "stop", "wait"}
        /\ co[p].pc = "done" => ~IsLastOf(p, "Extend")

\* the Release is about to be issued: the last statement of the call was a
\* successful Extend, the goroutine was told to stop and has exited
C12_Witness ==
    \E p \in Procs :
        /\ co[p].pc = "release" /\ co[p].doneClosed /\ co[p].rpc = "exited"
        /\ IsLastOf(p, "Extend") /\ last.res = "ok"

\* C13: when a call whose Acquire succeeded attempts its Release, and from
\* then on, the work context it gave to fn is cancelled.
C13_WorkCtxCancelledAtRelease ==
    \A p \in Procs :
        (co[p].acq = "ok" /\ co[p].pc \in {"release", "done"}) =>
            /\ co[p].cancelled
            /\ WorkCtxDone(p)

\* the Release is about to be issued by a call whose context nobody but the
\* deferred childCtxCancel has cancelled
C13_Witness ==
    \E p \in Procs :
        /\ co[p].pc = "release" /\ co[p].acq = "ok"
        /\ ~co[p].ctx /\ co[p].ext = "ok"
        /\ co[p].cancelled

\* C14: a call whose Acquire succeeded attempts no Release before its fn has
\* returned and exactly one Release afterwards, under a context that is live
\* also when the caller's context is cancelled.
C14_OneReleaseUnderLiveCtx ==
    \A p \in Procs :
        /\ co[p].pc # "done" => co[p].releases = 0
        /\ (co[p].acq = "ok" /\ co[p].pc = "done") =>
              /\ co[p].releases = 1
              /\ co[p].relCtx = "live"
              /\ co[p].fnRes # "none"

\* the caller's context was cancelled and the one Release of the call has
\* freed the row
C14_Witness ==
    \E p \in Procs :
        /\ co[p].pc = "done" /\ co[p].ctx
        /\ co[p].releases = 1 /\ co[p].relCtx = "live"
        /\ IsLastOf(p, "Release") /\ last.res = "ok"
        /\ row.expire_at = NULL

\* C15: a call whose caller cancelled the context while fn was running, with
\* the renewal interval shorter than the ttl, no database fault on its
\* Extends and nobody else touching the row, still holds its unexpired lease
\* when it attempts its Release.
C15_CancelKeepsTheLease ==
    \A p \in Procs :
        (/\ co[p].pc = "release" /\ co[p].ctx
         /\ co[p].interval < co[p].ttl
         /\ ~co[p].dbFault /\ ~co[p].forced /\ co[p].lostAt = NULL) =>
            /\ Held(row, now)
            /\ row.token = lock[HandleOf(p)].token

\* C17: the Release at the end of a call is reported to the logger exactly
\* when it returned an error other than ErrLockAlreadyReleased.
C17_ReleasedAlreadyIsNotLogged ==
    \A p \in Procs :
        (co[p].pc = "done" /\ IsLastOf(p, "Release")) =>
            ("release" \in co[p].log <=> last.res \notin {"ok", ErrLockAlreadyReleased})

\* C18: after an Extend of the renewal goroutine failed with an error other
\* than ErrLockAlreadyReleased the error is in the log, the goroutine has
\* not cancelled the work context, and it is still selecting on its ticker
\* unless the handshake told it to stop.
C18_ExtendErrorIsLoggedAndRetried ==
    \A p \in Procs :
        (IsLastOf(p, "Extend") /\ last.res \notin {"ok", ErrLockAlreadyReleased}) =>
            /\ "extend" \in co[p].log
            /\ co[p].pc \in {"fn", "stop", "wait"} => ~co[p].cancelled
            /\ co[p].rpc = "select" \/ co[p].doneClosed
            /\ co[p].rpc = "select" => co[p].nextTick > co[p].since

\* an Extend failed with a database error, was logged, and the Extend of a
\* later tick succeeded while fn is running with a live context
C18_Witness ==
    \E p \in Procs :
        /\ co[p].pc = "fn" /\ ~WorkCtxDone(p)
        /\ co[p].dbFault /\ "extend" \in co[p].log
        /\ IsLastOf(p, "Extend") /\ last.res = "ok"
        /\ Held(row, now)

\* ========================================================== the scenario
\* C16: the call of the scenario whose fn ran for 500 ms has returned the
\* value of its fn after exactly one successful Acquire, at least 4
\* successful Extends and exactly one successful Release.
C16_ScenarioCounts ==
    (co["p1"].pc = "done" /\ co["p1"].ran = Scenario.work) =>
        /\ co["p1"].count["Acquire"] = 1
        /\ co["p1"].count["Extend"] >= 4
        /\ co["p1"].count["Release"] = 1
        /\ co["p1"].fnRes # "none" /\ co["p1"].result = co["p1"].fnRes
        /\ row.expire_at = NULL

\* fn ran for 500 ms and returned an error, the ticker fired 4 times and the
\* call has returned that error
C16_Witness ==
    /\ co["p1"].pc = "done" /\ co["p1"].ran = Scenario.work
    /\ co["p1"].count["Extend"] = 4
    /\ co["p1"].result = "fnErr"

\* ---------------------------------- a static token acquired again and again
\* one process only acquires, always with the same static token; the other
\* uses the lock with the tokens Acquire generates
Refresher == "h1"
Contender == "h2"

InitRefresh == track = "refresh" /\ InitStore

NextRefresh ==
    \/ \E h \in Handles : NewLock(h)
    \/ AcquireStatic(Refresher)
    \/ Acquire(Contender)
    \/ Release(Contender)
    \/ Extend(Contender)
    \/ Tick

SpecRefresh == InitRefresh /\ [][NextRefresh]_vars

\* ------------------------------------------------ DoExclusively: the options
\* Durations are counted in milliseconds here. time.Duration is an integer
\* and lockTTL / 2 an integer division; the durations drawn are even, so
\* that halving is exact in milliseconds as it is in nanoseconds.
Millisecond == 1
Second == 1000 * Millisecond
Minute == 60 * Second

\* what WithLockTTL, WithPeriodicExtendInterval and WithReleaseTimeout are
\* given; 0 is also the value of an option that is not passed
Durations == {0, 2 * Millisecond, 5 * Second, Minute, 90 * Second}

\* var opts doOptions; for _, opt := range options { opt(&opts) }
OptionSets ==
    [lockTTL : Durations, periodicExtendInterval : Durations, releaseTimeout : Durations]

\* defaults where the interval is half of the ttl option as it was passed
doOptions_HalvesPassedTTL(o) ==
    [lockTTL |-> IF o.lockTTL = 0 THEN 1 * Minute ELSE o.lockTTL,
     periodicExtendInterval |->
         IF o.periodicExtendInterval = 0 THEN o.lockTTL \div 2
         ELSE o.periodicExtendInterval,
     releaseTimeout |-> IF o.releaseTimeout = 0 THEN 5 * Second ELSE o.releaseTimeout]

\* the three `if opts.x == 0` statements, in their order
doOptions(o) ==
    LET ttl == IF o.lockTTL = 0 THEN 1 * Minute ELSE o.lockTTL IN
    [lockTTL |-> ttl,
     periodicExtendInterval |->
         IF o.periodicExtendInterval = 0 THEN ttl \div 2
         ELSE o.periodicExtendInterval,
     releaseTimeout |-> IF o.releaseTimeout = 0 THEN 5 * Second ELSE o.releaseTimeout]

InitOpts == track = "opts" /\ InitStore

\* the caller's options are applied to the zero doOptions
PassOptions(p) ==
    /\ co[p].pc = "idle"
    /\ \E o \in OptionSets : co' = [co EXCEPT ![p].pc = "options", ![p].options = o]
    /\ UNCHANGED <<now, row, lock, uuids, track, mg, lease, last>>

\* the defaults are filled in; the call goes on with these values
SetDefaults(p) ==
    /\ co[p].pc = "options"
    /\ co' = [co EXCEPT ![p].pc = "defaults", ![p].opts = doOptions(co[p].options)]
    /\ UNCHANGED <<now, row, lock, uuids, track, mg, lease, last>>

NextOpts ==
    \/ PassOptions("p1")
    \/ SetDefaults("p1")

SpecOpts == InitOpts /\ [][NextOpts]_vars

\* --------------------------------- DoExclusively calls on one DBLock handle
\* the caller makes one DBLock with NewLock and calls its DoExclusively
\* method twice, concurrently
InitShared == track = "shared" /\ InitStore

NewSharedLock ==
    /\ track = "shared"
    /\ NewLock("h1")

\* l.DoExclusively(ctx, dbConn, fn, options...): the options and defaults
MethodCall(p) ==
    /\ track = "shared"
    /\ co[p].pc = "idle"
    /\ lock[HandleOf(p)].created
    /\ \E opts \in DoOptions :
         co' = [co EXCEPT ![p].pc = "acquire",
                          ![p].ttl = lockTTL(opts),
                          ![p].interval = periodicExtendInterval(opts)]
    /\ UNCHANGED <<now, row, lock, uuids, track, mg, lease, last>>

NextShared ==
    \/ NewSharedLock
    \/ \E p \in Procs : MethodCall(p)
    \/ \E p \in Procs : DoAcquire(p)
    \/ \E p \in Procs : RenewTick(p)
    \/ \E p \in Procs : RenewStop(p)
    \/ \E p \in Procs : \E v \in {"nil", "fnErr"} : FnReturn(p, v)
    \/ \E p \in Procs : CloseDone(p)
    \/ \E p \in Procs : WaitExit(p)
    \/ \E p \in Procs : DoRelease(p)
    \/ DoTick

SpecShared == InitShared /\ [][NextShared]_vars

\* ------------------------------------------- callers that choose their tokens
\* the tokens callers pass to AcquireWithStaticToken: any string, the empty
\* one included (the token column is VARCHAR(36) in MySQL)
AnyStaticTokens == {"", "s1"}

InitTokens == track = "tokens" /\ InitStore

AcquireAnyStatic(h) ==
    /\ lock[h].created
    /\ \E token \in AnyStaticTokens, ttl \in TTLs, exec \in Executors :
         \E fault \in Faults(exec) :
           AcquireWithStaticToken("AcquireStatic", h, token, ttl, exec, fault)
    /\ UNCHANGED <<now, uuids, track, mg, co>>

NextTokens ==
    \/ \E h \in Handles : NewLock(h)
    \/ \E h \in Handles : AcquireAnyStatic(h)
    \/ \E h \in Handles : Release(h)
    \/ \E h \in Handles : Extend(h)
    \/ Tick

SpecTokens == InitTokens /\ [][NextTokens]_vars

\* ================================================ claims: NewLock key lengths
\* C21: NewLock with an empty key or a key of more than 40 bytes returns the
\* validation error and touches neither the row nor the handle, even when the
\* executor would have failed the statement (so no statement was issued);
\* with a key of 1 to 40 bytes it is accepted: it fails only if the executor
\* fails, and otherwise the row of the key exists and the handle is created
C21_KeyLengthIsValidatedFirst ==
    last.op = "NewLock" =>
        /\ last.keyLen = 0 => last.res = "ErrEmptyKey"
        /\ last.keyLen > MaxKeyLen => last.res = "ErrLongKey"
        /\ last.keyLen \notin 1 .. MaxKeyLen =>
              row = last.before /\ ~lock[last.h].created
        /\ last.keyLen \in 1 .. MaxKeyLen =>
              /\ last.res = (IF last.fault = "execErr" THEN "execErr" ELSE "ok")
              /\ last.res = "ok" => row.exists /\ lock[last.h].created

\* a 41-byte key was rejected as too long while the executor was failing,
\* and no row exists
C21_Witness ==
    /\ last.op = "NewLock"
    /\ last.keyLen = MaxKeyLen + 1
    /\ last.fault = "execErr"
    /\ last.res = "ErrLongKey"
    /\ ~row.exists

\* ================================================== claims: the lock handle
\* C28: the token and the TTL of a handle change only in a step that is an
\* Acquire or AcquireWithStaticToken on this handle which returned nil (the
\* Commit of a surrounding transaction may still have failed), and they
\* change to the token and the ttl passed; so an Acquire that returns an
\* error, an Extend and a Release leave them as they are
C28_HandleSetOnlyByAcquire ==
    [][\A h \in Handles :
         (lock[h].created /\ lock'[h] # lock[h]) =>
            /\ IsAcquire(last'.op)
            /\ last'.h = h
            /\ last'.res \in {"ok", "commitErr"}
            /\ lock'[h].token = last'.token
            /\ last'.res = "ok" => lock'[h].TTL = last'.until - now]_vars

\* an Acquire with a new token was refused and the handle still carries the
\* token of its earlier Acquire
C28_Witness ==
    /\ IsAcquire(last.op)
    /\ last.res = ErrLockAlreadyAcquired
    /\ lock[last.h].TTL > 0
    /\ lock[last.h].token # last.token
    /\ lock[last.h].token = last.before.token

\* C29: every Extend a DoExclusively call issues carries the token and the
\* ttl its own Acquire set, and its Release carries that token, also when
\* two calls are made on one DBLock handle
C29_CallCarriesItsOwnToken ==
    \A p \in Procs :
        co[p].sent.op # "none" =>
            /\ co[p].sent.token = co[p].own.token
            /\ co[p].sent.op = "Extend" => co[p].sent.ttl = co[p].own.ttl

\* C30: while the row carries a token and a non-null expire_at, at the
\* current server time either Extend and Release with the row's token match
\* the row, or Acquire with any other token matches it: exactly one of the
\* two, never both and never neither
C30_OwnerOrOthersNeverBoth ==
    (row.exists /\ row.expire_at # NULL) =>
        LET t == row.token
            others == (StaticTokens \cup {Uuid(n) : n \in 1 .. MaxUuid + 1}) \ {t}
            owner == ExtendWhere(row, t, now) /\ ReleaseWhere(row, t, now)
        IN  /\ t # NULLTOKEN
            /\ ExtendWhere(row, t, now) <=> ReleaseWhere(row, t, now)
            /\ \A o \in others : owner <=> ~AcquireWhere(row, o, now)

\* at the very instant expire_at an Acquire with another token was refused
\* while Extend with the row's token still matches
C30_Witness ==
    /\ last.op = "Acquire" /\ last.fault = "none"
    /\ last.res = ErrLockAlreadyAcquired
    /\ row.expire_at = now
    /\ last.token # row.token
    /\ ExtendWhere(row, row.token, now)

NeverAcquired(h) == lock[h].created /\ lock[h].TTL = 0

\* the token of the row is the one another handle acquired with
TokenOfAnother(h, token) ==
    \E o \in Handles \ {h} : lock[o].TTL > 0 /\ lock[o].token = token

\* C22: Extend and Release on a handle that never acquired return
\* ErrLockAlreadyReleased and leave the row as it was, when the row carries
\* the token another handle acquired with, whatever that token is
C22_UnacquiredHandleIsRefused ==
    (/\ last.op \in {"Extend", "Release"}
     /\ NeverAcquired(last.h)
     /\ TokenOfAnother(last.h, last.before.token)
     /\ last.fault = "none")
    => last.res = ErrLockAlreadyReleased /\ row = last.before

\* ============================================ claims: DoExclusively options
\* C24: the ttl used is 1 minute when none was passed, the renewal interval
\* is half of the ttl used when none was passed, the release timeout is
\* 5 seconds when none was passed, and every non-zero value passed is used
\* as it is
C24_DefaultsOfDoExclusively ==
    \A p \in Procs :
        co[p].pc = "defaults" =>
            LET given == co[p].options
                used == co[p].opts
            IN
            /\ used.lockTTL = (IF given.lockTTL = 0 THEN 60000 ELSE given.lockTTL)
            /\ used.periodicExtendInterval * 2 =
                  (IF given.periodicExtendInterval = 0 THEN used.lockTTL
                   ELSE given.periodicExtendInterval * 2)
            /\ used.releaseTimeout =
                  (IF given.releaseTimeout = 0 THEN 5000 ELSE given.releaseTimeout)

\* only WithLockTTL(90 s) was passed: interval 45 s, release timeout 5 s
C24_Witness ==
    /\ co["p1"].pc = "defaults"
    /\ co["p1"].options =
         [lockTTL |-> 90000, periodicExtendInterval |-> 0, releaseTimeout |-> 0]
    /\ co["p1"].opts =
         [lockTTL |-> 90000, periodicExtendInterval |-> 45000, releaseTimeout |-> 5000]

\* ============================================== migrate/v2: Manager.RunLimit
\* Migration IDs are strings compared with <; the IDs 1 .. MaxMigs stand for
\* MaxMigs strings in that order. A migration's steps are its statements and
\* function taken together; schema is the set of migrations whose up steps
\* are in effect. table is the tracking table: per ID no row, or one row
\* with up = 1 or up = 0 (id is the primary key).
DirectionUp == "up"
DirectionDown == "down"
NoLimit == 0
Limits == {NoLimit, 1, 2}

\* the migrations that implement TxDisabler with DisableTx() = true
TxDisabled == {3}

\* the lists a caller passes: the migrations, each once, in any order
Lists ==
    {l \in [1 .. MaxMigs -> MigIDs] :
        \A i, j \in 1 .. MaxMigs : i # j => l[i] # l[j]}

\* where a run can fail: creating or reading the tracking table ("setup"),
\* the steps of migration `at`, the recording of migration `at`
NoFault == [at |-> 0, stage |-> "none"]
MigFaults ==
    {NoFault, [at |-> 0, stage |-> "setup"]}
    \cup [at : MigIDs, stage : {"steps", "record"}]

Range(s) == {s[i] : i \in 1 .. Len(s)}

\* sort.Slice(sorted, func(i, j) { return sorted[i].ID() < sorted[j].ID() })
RECURSIVE sortSlice(_)
sortSlice(s) ==
    IF s = <<>> THEN <<>>
    ELSE LET least == CHOOSE x \in Range(s) : \A y \in Range(s) : x <= y
         IN <<least>> \o sortSlice(SelectSeq(s, LAMBDA y : y # least))

\* the loop of filterMigrations over the indices `idx` of sorted, in order
RECURSIVE filterLoop(_, _, _, _, _, _)
filterLoop(sorted, idx, applied, wanted, limit, toApply) ==
    IF idx = <<>> THEN toApply
    ELSE LET mig == sorted[Head(idx)] IN
         IF (mig \in applied) = wanted
         THEN LET more == Append(toApply, mig) IN
              IF limit > 0 /\ Len(more) >= limit THEN more
              ELSE filterLoop(sorted, Tail(idx), applied, wanted, limit, more)
         ELSE filterLoop(sorted, Tail(idx), applied, wanted, limit, toApply)

\* a filter that walks the list in the order it was passed
filterMigrations_Unsorted(migrations, applied, direction, limit) ==
    LET n == Len(migrations) IN
    IF direction = DirectionUp
    THEN filterLoop(migrations, [i \in 1 .. n |-> i], applied, FALSE, limit, <<>>)
    ELSE filterLoop(migrations, [i \in 1 .. n |-> n + 1 - i], applied, TRUE, limit, <<>>)

\* a filter that stops one migration after the limit
filterMigrations_LimitOffByOne(migrations, applied, direction, limit) ==
    LET sorted == sortSlice(migrations)
        n == Len(sorted)
        lim == IF limit > 0 THEN limit + 1 ELSE limit
    IN
    IF direction = DirectionUp
    THEN filterLoop(sorted, [i \in 1 .. n |-> i], applied, FALSE, lim, <<>>)
    ELSE filterLoop(sorted, [i \in 1 .. n |-> n + 1 - i], applied, TRUE, lim, <<>>)

filterMigrations(migrations, applied, direction, limit) ==
    LET sorted == sortSlice(migrations)
        n == Len(sorted)
    IN
    IF direction = DirectionUp
    THEN filterLoop(sorted, [i \in 1 .. n |-> i], applied, FALSE, limit, <<>>)
    ELSE filterLoop(sorted, [i \in 1 .. n |-> n + 1 - i], applied, TRUE, limit, <<>>)

\* SELECT id FROM table WHERE up = 1
getAppliedMigrations(table) == {id \in MigIDs : table[id] = "up"}

\* a recording that always inserts: the insert of an ID that has a row fails
recordMigration_AlwaysInserts(table, id, applied) ==
    IF applied
    THEN IF table[id] # "none" THEN [table |-> table, err |-> TRUE]
         ELSE [table |-> [table EXCEPT ![id] = "up"], err |-> FALSE]
    ELSE [table |-> [table EXCEPT ![id] = IF @ = "none" THEN @ ELSE "down"],
          err |-> FALSE]

\* recordMigration / recordMigrationNoTx: UPDATE the row of the ID, INSERT
\* one when applying and no row was updated
recordMigration(table, id, applied) ==
    IF applied
    THEN [table |-> [table EXCEPT ![id] = "up"], err |-> FALSE]
    ELSE [table |-> [table EXCEPT ![id] = IF @ = "none" THEN @ ELSE "down"],
          err |-> FALSE]

\* the steps of a migration in one direction
executeMigrationSteps(schema, id, direction) ==
    IF direction = DirectionUp THEN schema \cup {id} ELSE schema \ {id}

\* an executeMigration whose transaction keeps the steps when the recording
\* fails
executeMigration_NoRollback(db, id, direction, fault) ==
    LET failed(stage) == fault.at = id /\ fault.stage = stage
        rec == recordMigration(db.table, id, direction = DirectionUp)
        done == [table |-> rec.table,
                 schema |-> executeMigrationSteps(db.schema, id, direction)]
    IN
    IF failed("steps") THEN [db |-> db, err |-> TRUE]
    ELSE IF failed("record") \/ rec.err
    THEN [db |-> [db EXCEPT !.schema = done.schema], err |-> TRUE]
    ELSE [db |-> done, err |-> FALSE]

\* executeMigration: db is [table, schema]; in a transaction a failure
\* leaves nothing, without one the steps stay when the recording fails
executeMigration(db, id, direction, fault) ==
    LET failed(stage) == fault.at = id /\ fault.stage = stage
        rec == recordMigration(db.table, id, direction = DirectionUp)
        done == [table |-> rec.table,
                 schema |-> executeMigrationSteps(db.schema, id, direction)]
    IN
    IF failed("steps") THEN [db |-> db, err |-> TRUE]
    ELSE IF failed("record") \/ rec.err
    THEN [db |-> IF id \in TxDisabled THEN [db EXCEPT !.schema = done.schema] ELSE db,
          err |-> TRUE]
    ELSE [db |-> done, err |-> FALSE]

\* the loop of RunLimit over toApply
RECURSIVE executeAll(_, _, _, _, _)
executeAll(db, toApply, direction, fault, order) ==
    IF toApply = <<>> THEN [db |-> db, order |-> order, err |-> FALSE]
    ELSE LET r == executeMigration(db, Head(toApply), direction, fault) IN
         IF r.err THEN [db |-> r.db, order |-> order, err |-> TRUE]
         ELSE executeAll(r.db, Tail(toApply), direction, fault,
                         Append(order, Head(toApply)))

\* what RunLimit does and returns: the database after it, the migrations it
\* completed in their order, their count and whether it returned an error
RunLimitRes(migrations, direction, limit, fault) ==
    LET db == [table |-> mg.table, schema |-> mg.schema]
        applied == getAppliedMigrations(mg.table)
        toApply == filterMigrations(migrations, applied, direction, limit)
        r == executeAll(db, toApply, direction, fault, <<>>)
    IN
    IF fault.stage = "setup"
    THEN [db |-> db, order |-> <<>>, count |-> 0, err |-> TRUE]
    ELSE [db |-> r.db, order |-> r.order, count |-> Len(r.order), err |-> r.err]

\* a run that left every migration of the list applied, or none: a Run that
\* returned no error
Complete(direction, limit, res) == limit = NoLimit /\ ~res.err

\* 1 after a complete Up run that applied the whole list, 2 after a complete
\* Down run that follows it at once, 3 after a complete Up run that follows that
StreakAfter(streak, direction, limit, res, list) ==
    IF ~Complete(direction, limit, res) THEN 0
    ELSE IF direction = DirectionDown THEN (IF streak = 1 THEN 2 ELSE 0)
    ELSE IF streak = 2 THEN 3
    ELSE IF Len(res.order) = Len(list) THEN 1
    ELSE 0

InitMigrate == track = "migrate" /\ InitStore

\* the caller makes its list of migrations
NewMigrations ==
    /\ track = "migrate"
    /\ ~mg.listed
    /\ \E l \in Lists : mg' = [mg EXCEPT !.list = l, !.listed = TRUE]
    /\ UNCHANGED <<now, row, lock, uuids, track, lease, last, co>>

\* the run repeats a Run in direction up that returned no error
Again(run, direction, limit) ==
    /\ direction = DirectionUp /\ limit = NoLimit
    /\ run.direction = DirectionUp /\ run.limit = NoLimit /\ ~run.err

\* Manager.RunLimit(migrations, direction, limit); the run is recorded: its
\* arguments, the IDs recorded as applied before it, what it completed and
\* returned, whether it repeats a Run, the streak it follows, whether the
\* database failed a statement during it, the migrations whose steps were in
\* effect before it and where it failed
RunLimit(direction, limit) ==
    /\ mg.listed
    /\ \E fault \in MigFaults :
         LET res == RunLimitRes(mg.list, direction, limit, fault)
             run == [direction |-> direction, limit |-> limit,
                     before |-> getAppliedMigrations(mg.table),
                     order |-> res.order, count |-> res.count, err |-> res.err,
                     again |-> Again(mg.run, direction, limit),
                     after |-> mg.streak, faulted |-> fault # NoFault,
                     had |-> mg.schema,
                     failure |-> IF res.err THEN fault ELSE NoFault]
         IN mg' = [mg EXCEPT !.table = res.db.table,
                             !.schema = res.db.schema,
                             !.run = run,
                             !.streak = StreakAfter(@, direction, limit, res, mg.list)]
    /\ UNCHANGED <<now, row, lock, uuids, track, lease, last, co>>

\* Manager.Run(migrations, direction)
RunUp == track = "migrate" /\ RunLimit(DirectionUp, NoLimit)
RunDown == track = "migrate" /\ RunLimit(DirectionDown, NoLimit)
RunLimitUp ==
    /\ track = "migrate"
    /\ \E limit \in Limits \ {NoLimit} : RunLimit(DirectionUp, limit)
RunLimitDown ==
    /\ track = "migrate"
    /\ \E limit \in Limits \ {NoLimit} : RunLimit(DirectionDown, limit)

NextMigrate ==
    \/ NewMigrations
    \/ RunUp
    \/ RunDown
    \/ RunLimitUp
    \/ RunLimitDown

SpecMigrate == InitMigrate /\ [][NextMigrate]_vars

\* ======================================================= claims: migrations
Ascending(s) == \A i, j \in 1 .. Len(s) : i < j => s[i] < s[j]
Descending(s) == \A i, j \in 1 .. Len(s) : i < j => s[i] > s[j]
\* the migrations of the list that were not recorded as applied before the run
Pending == Range(mg.list) \ mg.run.before
IsRun(direction) == mg.run.direction = direction /\ mg.run.limit = NoLimit

FailedIn(run) == run.err /\ run.failure.at # 0

\* what the run was to apply, in its order
ToApply(run) == filterMigrations(mg.list, run.before, run.direction, run.limit)

\* C37: a RunLimit that fails in a migration stops there: it returns the
\* number of migrations completed before it, those are recorded and in
\* effect and nothing else has changed, so no later migration was attempted;
\* of a failed migration that runs in a transaction neither the steps nor the
\* record are there, and the next run in that direction starts with it
C37_FailureStopsTheRun ==
    FailedIn(mg.run) =>
        LET run == mg.run
            f == run.failure.at
            k == run.count
            up == run.direction = DirectionUp
            done == Range(run.order)
            applied == getAppliedMigrations(mg.table)
            partial == IF f \in TxDisabled /\ run.failure.stage = "record"
                       THEN {f} ELSE {}
        IN
        /\ k = Len(run.order)
        /\ k < Len(ToApply(run))
        /\ SubSeq(ToApply(run), 1, k + 1) = Append(run.order, f)
        /\ applied = (IF up THEN run.before \cup done ELSE run.before \ done)
        /\ mg.schema = (IF up THEN run.had \cup done \cup partial
                              ELSE run.had \ (done \cup partial))
        /\ f \notin TxDisabled =>
              /\ (f \in mg.schema) = (f \in run.had)
              /\ (f \in applied) = (f \in run.before)
        /\ \A limit \in Limits :
              Head(filterMigrations(mg.list, applied, run.direction, limit)) = f

\* a Run up applied migration 1 and failed in migration 2 of 3 after its
\* steps had run, when recording it in the same transaction: migration 2 is
\* neither in effect nor recorded and migration 3 was not touched
C37_Witness ==
    /\ FailedIn(mg.run) /\ IsRun(DirectionUp)
    /\ mg.run.failure.stage = "record"
    /\ mg.run.failure.at \notin TxDisabled
    /\ mg.run.count >= 1
    /\ Len(ToApply(mg.run)) >= mg.run.count + 2
    /\ mg.run.failure.at \notin mg.schema

\* ================================================ handles sharing one token
\* Every handle may acquire with the one static token or with a token of its
\* own; the calls run to their end without a transport or context error.
InitJoint == track = "joint" /\ InitStore

JointAcquire(h) ==
    /\ lock[h].created
    /\ \E token \in StaticTokens, ttl \in TTLs, exec \in Executors :
           AcquireWithStaticToken("AcquireStatic", h, token, ttl, exec, "none")
    /\ UNCHANGED <<now, uuids, track, mg, co>>

OutsideAcquire(h) ==
    /\ lock[h].created
    /\ uuids < MaxUuid
    /\ uuids' = uuids + 1
    /\ \E ttl \in TTLs, exec \in Executors :
           AcquireWithStaticToken("Acquire", h, Uuid(uuids + 1), ttl, exec, "none")
    /\ UNCHANGED <<now, track, mg, co>>

JointRelease(h) ==
    /\ lock[h].created
    /\ \E exec \in Executors : ReleaseLock(h, exec, "none")
    /\ UNCHANGED <<now, uuids, track, mg, co>>

JointExtend(h) ==
    /\ lock[h].created
    /\ \E exec \in Executors : ExtendLock(h, exec, "none")
    /\ UNCHANGED <<now, uuids, track, mg, co>>

NextJoint ==
    \/ \E h \in Handles : NewLock(h)
    \/ \E h \in Handles : JointAcquire(h)
    \/ \E h \in Handles : OutsideAcquire(h)
    \/ \E h \in Handles : JointRelease(h)
    \/ \E h \in Handles : JointExtend(h)
    \/ Tick

SpecJoint == InitJoint /\ [][NextJoint]_vars

\* ============================================== claims: a shared static token
\* the handles other than h that carry the token h carries
Sharing(h) ==
    {g \in Handles \ {h} : lock[g].TTL > 0 /\ lock[g].token = lock[h].token}

\* C31: an Extend that returns nil leaves expire_at no earlier than it found
\* it, also when another handle acquired the key with the same static token
\* and a longer ttl
C31_ExtendNeverShortens ==
    (/\ last.op = "Extend" /\ last.res = "ok"
     /\ lock[last.h].TTL > 0
     /\ \E g \in Sharing(last.h) : lock[g].TTL > lock[last.h].TTL)
        => last.until >= last.before.expire_at

\* the row as a successful Release leaves it
Freed(r) == r.exists /\ r.expire_at = NULL

\* C32: a Release that returns nil frees the row whoever else carries its
\* token: on the freed row every Extend and Release returns
\* ErrLockAlreadyReleased and changes nothing, and an Acquire, with any
\* token and at once, returns nil and takes the row
C32_ReleaseFreesForEveryone ==
    /\ (last.op = "Release" /\ last.res = "ok") =>
           Freed(row) /\ row.token = last.before.token
    /\ (last.op \in {"Extend", "Release"} /\ Freed(last.before)) =>
           last.res = ErrLockAlreadyReleased /\ row = last.before
    /\ (IsAcquire(last.op) /\ Freed(last.before)) =>
           /\ last.res = "ok"
           /\ row.token = last.token /\ row.expire_at = last.until

\* the handles that acquired with the token the row was released under, were
\* told they hold it beyond now and never released
LeftHolding(r) ==
    {g \in Handles : /\ lease[g].held /\ lease[g].until > now
                      /\ lock[g].token = r.token}

\* handles acquired with the static token, one of them released, and this
\* Acquire with a new token took the row while the lease another handle was
\* told it holds had not run out
C32_Witness ==
    /\ last.op = "Acquire" /\ last.res = "ok"
    /\ Freed(last.before) /\ last.before.token \in StaticTokens
    /\ LeftHolding(last.before) # {}

\* ================================================ claims: calls that fail
\* C33: when Acquire, Extend or Release returned an error, the row is as it
\* was before the call, on the plain connection and in a transaction
C33_ErrorLeavesRowUnchanged ==
    (/\ IsAcquire(last.op) \/ last.op \in {"Extend", "Release"}
     /\ last.res # "ok")
        => row = last.before

\* ============================================ claims: the stop handshake
\* the renewal goroutine of p got ErrLockAlreadyReleased from Extend
SawReleased(p) == co[p].ext = "released"

\* C36: once the renewal goroutine of a call has seen ErrLockAlreadyReleased
\* it has returned: the call issues no further Extend and no Acquire, its
\* handle keeps its token, and the one statement it still sends is the final
\* Release, also when the row is free again while fn runs
C36_NoRenewalAfterLoss ==
    [][\A p \in Procs :
          SawReleased(p) =>
              /\ co[p].rpc = "exited" /\ co'[p].rpc = "exited"
              /\ co'[p].nextTick = co[p].nextTick
              /\ uuids' = uuids /\ co'[p].since = co[p].since
              /\ lock'[HandleOf(p)] = lock[HandleOf(p)]
              /\ co'[p].releases \in {co[p].releases, co[p].releases + 1}
              /\ co'[p].releases <= 1
              /\ (co'[p].releases = co[p].releases /\ co'[p].forced = co[p].forced)
                     => row' = row]_vars

\* fn is still running after the renewal goroutine saw ErrLockAlreadyReleased
\* and returned; the row is free and a renewal would be due
C36_Witness ==
    /\ co[Stopper].pc = "fn"
    /\ SawReleased(Stopper) /\ co[Stopper].rpc = "exited"
    /\ ~Held(row, now)
    /\ now >= co[Stopper].nextTick

\* C34: once fn has returned, DoExclusively returns, and
\* periodicalExtensionDone is closed once, by the deferred close only:
\* also when the renewal goroutine has exited on its own and when the close
\* comes while an Extend is in flight
C34_FnReturnedLeadsToReturn ==
    /\ [][\A p \in Procs :
             (co[p].pc = "stop" /\ co'[p].pc # "stop") =>
                 (~co[p].doneClosed /\ co'[p].doneClosed)]_vars
    /\ \A p \in {Stopper} : (co[p].pc = "stop") ~> (co[p].pc = "done")

\* periodicalExtensionDone was closed while the Extend of the renewal
\* goroutine was in flight, after another actor released the row
C34_Witness ==
    /\ co[Stopper].pc = "wait" /\ co[Stopper].doneClosed
    /\ co[Stopper].rpc = "extend"
    /\ co[Stopper].forced

\* ============================================ claims: the released handle
\* the last call of h that returned nil was a Release
Released(h) == lock[h].TTL > 0 /\ ~lease[h].held

\* this step is an Extend or a Release by h
ExtendOrReleaseBy(h) ==
    /\ last'.op \in {"Extend", "Release"} /\ last'.h = h
    /\ last' # last \/ row' # row \/ lease' # lease

====
